---- MODULE Spec2Model ----
(***************************************************************************)
(* The status bar widget of ranger: ranger/gui/widgets/statusbar.py.       *)
(* One StatusBar instance, the inputs it reads each frame (current file,   *)
(* its stat, the directory shown by its column, the clock) and the         *)
(* operations the surrounding program performs on it: setting the hint,    *)
(* notify(), request_redraw() and draw().                                  *)
(***************************************************************************)
EXTENDS Integers, Sequences, FiniteSets, TLC

VARIABLES
    \* ---- StatusBar fields (statusbar.py 35-45, need_redraw from Widget)
    hint, msg, need_redraw,
    old_cf, old_mtime, old_du, old_hint, result,
    owners, groups,
    \* ---- what the widget reads from its collaborators
    now,            \* time()
    cf,             \* env.cf, the pointed-at file object
    stat,           \* env.cf.stat
    disk_usage,     \* env.cwd.disk_usage (the column's target is env.cwd)
    column,         \* self.column: "None", or "dir" (its target is a loaded directory)
    nfiles,         \* len(target), len(target.files)
    marked,         \* target.marked_items
    scroll_begin,   \* target.scroll_begin
    hei,            \* self.column.hei
    free_space,     \* env.get_free_space(target.mount_path)
    display_size,   \* settings.display_size_in_status_bar
    wid,            \* self.wid
    \* ---- observation of the run (not program state)
    last,           \* <<arguments>> of the notify() made last, if it was the last step
    pre,            \* <<snapshot>> of the state the last draw() started in
    ops,            \* what the last draw() did to the display surface
    calc,           \* number of _calc_bar() calls made by the last draw()
    seen,           \* <<inputs>> as they were at the most recent draw()
    requested,      \* request_redraw() called and not yet served
    draws,          \* consecutive draw() calls with nothing in between
    other,          \* an input outside the fingerprint changed since draw()
    shown,          \* overlays drawn since normal content was last due
    covered         \* the held message was created under a hint and every
                    \* draw() since then had a hint to show

widget == <<hint, msg, need_redraw, old_cf, old_mtime, old_du, old_hint,
            result, owners, groups>>
inputs == <<now, cf, stat, disk_usage, column, nfiles, marked, scroll_begin,
            hei, free_space, display_size, wid>>
history == <<last, pre, ops, calc, seen, requested, draws, other, shown,
             covered>>
vars == <<widget, inputs, history>>

\* ------------------------------------------------------------- bounds
MaxTime == 2
Wid == 80

\* ------------------------------------------------------------- values
None == <<>>
Some(v) == <<v>>

\* A hint value: a str (its characters) or another object (None is the
\* falsy non-str, a non-empty list a truthy non-str).
HintNone == [isStr |-> FALSE, chars |-> <<>>]
HintEmpty == [isStr |-> TRUE, chars |-> <<>>]
HintAB == [isStr |-> TRUE, chars |-> <<"a", "/", "/", "b">>]
HintList == [isStr |-> FALSE, chars |-> <<"x">>]
HintValues == {HintNone, HintEmpty, HintAB, HintList}

Truthy(h) == h.chars # <<>>

Files == {"f1", "f2"}
NoFile == "None"

\* env.cf.stat: reading it raises, it is None, or it is a stat result.
StatRaises == [kind |-> "raises", st_mtime |-> 0]
StatNone == [kind |-> "None", st_mtime |-> 0]
StatOk(m) == [kind |-> "ok", st_mtime |-> m]
StatValues == {StatRaises, StatOk(1), StatOk(2)}

\* what notify() is called with: an informative and an error notice
Notices == {[text |-> "m1", bad |-> FALSE], [text |-> "m2", bad |-> TRUE]}
Durations == {0, 1}

\* ------------------------------------------------------------ Message
Message(text, duration, bad, t) ==
    [text |-> text, bad |-> bad, elapse |-> t + duration]

\* is_alive with the boundary left out
is_alive_strict(m, t) == t < m.elapse

is_alive(m, t) == t <= m.elapse

\* ---------------------------------------------- collaborators' data
\* The two file objects the browser can point at: f1 is a regular file
\* owned by root, f2 a symbolic link owned by the user running ranger.
get_permission_string(f) == IF f = "f1" THEN "-rw-r--r--" ELSE "lrwxrwxrwx"
st_uid(f) == IF f = "f1" THEN 0 ELSE 1000
st_gid(f) == IF f = "f1" THEN 0 ELSE 1000
st_nlink(f) == 1
is_link(f) == f = "f2"
exists(f) == TRUE
readlink(f) == "f1"
infostring(f) == IF f = "f1" THEN "12 B" ELSE ""
getuid == 1000

\* The passwd and group databases: id 0 has an entry, id 1000 has none
\* (getpwuid / getgrgid raise KeyError).
getpwuid == (0 :> "root")
getgrgid == (0 :> "wheel")

\* Items of the listing: item i has size 10*i; item 2 is a directory.
ItemSize(i) == 10 * i
ItemIsFile(i) == i # 2

human_readable(n) == ToString(n) \o "B"
strftime(m) == "2010-01-01 00:0" \o ToString(m)

\* ------------------------------------------------------------ the bar
base == "in_statusbar"
Frag(string, tags) == [string |-> string, lst |-> <<base>> \o tags]
Space == Frag(" ", <<"space">>)

RECURSIVE sumsize(_)
sumsize(side) ==
    IF side = <<>> THEN 0 ELSE Len(side[1].string) + sumsize(Tail(side))

RECURSIVE shrink_by_removing(_, _, _)
shrink_by_removing(left, right, w) ==
    IF sumsize(left) + sumsize(right) <= w THEN [left |-> left, right |-> right]
    ELSE IF right # <<>>
         THEN shrink_by_removing(left, SubSeq(right, 1, Len(right) - 1), w)
         ELSE shrink_by_removing(SubSeq(left, 1, Len(left) - 1), right, w)

combine(bar) == bar.left \o bar.right

\* ---------------------------------------------------------- name caches
_get_owner(cache, uid) ==
    IF uid \in DOMAIN cache THEN [name |-> cache[uid], cache |-> cache]
    ELSE IF uid \in DOMAIN getpwuid
         THEN [name |-> getpwuid[uid], cache |-> (uid :> getpwuid[uid]) @@ cache]
         ELSE [name |-> ToString(uid), cache |-> cache]

_get_group(cache, gid) ==
    IF gid \in DOMAIN cache THEN [name |-> cache[gid], cache |-> cache]
    ELSE IF gid \in DOMAIN getgrgid
         THEN [name |-> getgrgid[gid], cache |-> (gid :> getgrgid[gid]) @@ cache]
         ELSE [name |-> ToString(gid), cache |-> cache]

\* ------------------------------------------------------------ composer
\* The object the left part describes.  The column's target and
\* env.at_level(0) are both env.cwd, whose pointed_obj is env.cf.
LeftTarget(e) == e.cf

_get_left_part(w, e) ==
    LET target == LeftTarget(e)
        o == _get_owner(w.owners, st_uid(target))
        g == _get_group(w.groups, st_gid(target))
        how == IF getuid = st_uid(target) THEN "good" ELSE "bad"
        head == << Frag(get_permission_string(target), <<"permissions", how>>),
                   Space,
                   Frag(ToString(st_nlink(target)), <<"nlink">>),
                   Space,
                   Frag(o.name, <<"owner">>),
                   Space,
                   Frag(g.name, <<"group">>) >>
        rest == IF is_link(target)
                THEN << Frag(" -> " \o readlink(target),
                             <<"link", IF exists(target) THEN "good" ELSE "bad">>) >>
                ELSE (IF e.display_size /\ infostring(target) # ""
                      THEN << Frag(infostring(target), <<>>) >> ELSE <<>>)
                     \o << Space, Frag(strftime(e.stat.st_mtime), <<"mtime">>) >>
    IN  IF e.stat.kind # "ok"
        THEN [left |-> <<>>, owners |-> w.owners, groups |-> w.groups]
        ELSE [left |-> head \o rest, owners |-> o.cache, groups |-> g.cache]

\* the sizes of all marked items summed, directories included
RECURSIVE SumSizesAll(_)
SumSizesAll(S) ==
    IF S = {} THEN 0
    ELSE LET i == CHOOSE j \in S : TRUE
         IN  ItemSize(i) + SumSizesAll(S \ {i})

RECURSIVE SumSizes(_)
SumSizes(S) ==
    IF S = {} THEN 0
    ELSE LET i == CHOOSE j \in S : TRUE
         IN  (IF ItemIsFile(i) THEN ItemSize(i) ELSE 0) + SumSizes(S \ {i})

\* the percentage cut off instead of rounded
PercentageFloor(pos, max_pos) == (100 * pos) \div max_pos

\* '{0:0>.0f}'.format(100.0 * pos / max_pos): nearest integer, ties to even
Percentage(pos, max_pos) ==
    LET q == (100 * pos) \div max_pos
        r == (100 * pos) % max_pos
    IN  IF 2 * r < max_pos THEN q
        ELSE IF 2 * r > max_pos THEN q + 1
        ELSE IF q % 2 = 0 THEN q ELSE q + 1

_get_right_part(e) ==
    LET pos == e.scroll_begin
        max_pos == e.nfiles - e.hei
        n == Cardinality(e.marked)
        summary ==
            IF e.marked # {}
            THEN << Frag(human_readable(IF n = e.nfiles THEN e.disk_usage
                                        ELSE SumSizes(e.marked)), <<>>),
                    Frag(" / " \o ToString(n), <<>>) >>
            ELSE << Frag(human_readable(e.disk_usage), <<>>),
                    Frag(", ", <<"space">>),
                    Frag(human_readable(e.free_space), <<>>) >>
        indicator ==
            IF e.marked # {} THEN Frag("Mrk", <<"scroll", "marked">>)
            ELSE IF max_pos > 0
                 THEN IF pos = 0 THEN Frag("Top", <<"scroll", "top">>)
                      ELSE IF pos >= max_pos THEN Frag("Bot", <<"scroll", "bot">>)
                      ELSE Frag(ToString(Percentage(pos, max_pos)) \o "%",
                                <<"scroll", "percentage">>)
                 ELSE Frag("All", <<"scroll", "all">>)
    IN  IF e.column = "None" THEN <<>>
        ELSE IF e.column # "dir" THEN <<>>
        ELSE summary \o << Frag("  ", <<"space">>), indicator >>

\* _calc_bar without the call of shrink_by_removing
_calc_bar_unshrunk(w, e) ==
    LET l == _get_left_part(w, e)
        r == _get_right_part(e)
    IN  [w EXCEPT !.result = Some(l.left \o r),
                  !.owners = l.owners, !.groups = l.groups]

_calc_bar(w, e) ==
    LET l == _get_left_part(w, e)
        r == _get_right_part(e)
        bar == shrink_by_removing(l.left, r, e.wid)
    IN  [w EXCEPT !.result = Some(combine(bar)),
                  !.owners = l.owners, !.groups = l.groups]

\* ----------------------------------------------------- display surface
\* One call on the curses window or on the widget's drawing shortcuts.
Op(name, x, string, n, lst) ==
    [op |-> name, x |-> x, string |-> string, n |-> n, lst |-> lst]
erase == Op("erase", 0, "", 0, <<>>)
color(lst) == Op("color", 0, "", 0, lst)
addnstr(x, string, n) == Op("addnstr", x, string, n, <<>>)
move == Op("move", 0, "", 0, <<>>)
addstr(string) == Op("addstr", 0, string, 0, <<>>)
color_reset == Op("color_reset", 0, "", 0, <<>>)

_draw_message(m, w) ==
    << erase,
       color(<<base, "message", IF m.bad THEN "bad" ELSE "good">>),
       addnstr(0, m.text, w) >>

\* str.split('//') on the characters of the hint
RECURSIVE split(_, _)
split(s, cur) ==
    IF s = <<>> THEN <<cur>>
    ELSE IF Len(s) >= 2 /\ s[1] = "/" /\ s[2] = "/"
         THEN <<cur>> \o split(SubSeq(s, 3, Len(s)), <<>>)
         ELSE split(Tail(s), Append(cur, s[1]))

RECURSIVE Join(_)
Join(chars) == IF chars = <<>> THEN "" ELSE chars[1] \o Join(Tail(chars))

\* addnstr raises when the start column lies outside the window
AddnstrRaises(starting_point, w) == starting_point >= w

RECURSIVE hint_loop(_, _, _, _, _)
hint_loop(segs, highlight, space_left, starting_point, w) ==
    IF segs = <<>> THEN <<>>
    ELSE LET hl == ~highlight
             style == color(IF hl THEN <<base, "text", "highlight">>
                                  ELSE <<base, "text">>)
         IN  IF AddnstrRaises(starting_point, w) THEN <<style>>
             ELSE <<style, addnstr(starting_point, Join(segs[1]), space_left)>>
                  \o hint_loop(Tail(segs), hl, space_left - Len(segs[1]),
                               starting_point + Len(segs[1]), w)

\* _draw_hint that highlights the first segment
_draw_hint_highlight_first(h, w, x) ==
    <<erase>> \o hint_loop(split(h.chars, <<>>), FALSE, w, x, w)

_draw_hint(h, w, x) ==
    <<erase>> \o hint_loop(split(h.chars, <<>>), TRUE, w, x, w)

RECURSIVE print_parts(_)
print_parts(parts) ==
    IF parts = <<>> THEN <<>>
    ELSE <<color(parts[1].lst), addstr(parts[1].string)>>
         \o print_parts(Tail(parts))

_print_result(r) == <<move>> \o print_parts(r) \o <<color_reset>>

\* ---------------------------------------------------------------- draw
\* self.hint and isinstance(self.hint, str)
HintActive(h) == Truthy(h) /\ h.isStr

\* a hint branch that drops a message whose expiry has passed
HintBranchExpires(w, e) ==
    LET nr == (w.old_hint # w.hint) \/ w.need_redraw
        m == IF w.msg # None /\ ~is_alive(w.msg[1], e.now) THEN None
             ELSE w.msg
    IN  [w |-> [w EXCEPT !.need_redraw = nr, !.msg = m],
         ops |-> IF nr THEN _draw_hint(w.hint, e.wid, e.x) ELSE <<>>,
         calc |-> 0]

\* a hint branch that lowers need_redraw once the hint is drawn
HintBranchLowers(w, e) ==
    LET nr == (w.old_hint # w.hint) \/ w.need_redraw
    IN  [w |-> [w EXCEPT !.need_redraw = FALSE],
         ops |-> IF nr THEN _draw_hint(w.hint, e.wid, e.x) ELSE <<>>,
         calc |-> 0]

\* the hint branch: need_redraw is raised when the hint differs from
\* old_hint, and the hint is drawn when need_redraw is set
HintBranch(w, e) ==
    LET nr == (w.old_hint # w.hint) \/ w.need_redraw
    IN  [w |-> [w EXCEPT !.need_redraw = nr],
         ops |-> IF nr THEN _draw_hint(w.hint, e.wid, e.x) ELSE <<>>,
         calc |-> 0]

\* if self.old_hint and not self.hint
HintCleared(w) ==
    IF Truthy(w.old_hint) /\ ~Truthy(w.hint)
    THEN [w EXCEPT !.old_hint = HintNone, !.need_redraw = TRUE]
    ELSE w

\* the expired message dropped without asking for a redraw
MsgExpiredQuiet(w) == [w EXCEPT !.msg = None]

\* the else branch of self.msg.is_alive()
MsgExpired(w) == [w EXCEPT !.msg = None, !.need_redraw = TRUE]

\* try: mtime = self.env.cf.stat.st_mtime  except: mtime = -1
\* a failing read of the mtime taken as 0
observed_mtime_zero(e) == IF e.stat.kind = "ok" THEN e.stat.st_mtime ELSE 0

observed_mtime(e) == IF e.stat.kind = "ok" THEN e.stat.st_mtime ELSE -1

\* not self.result
NoResult(r) == r = None \/ r[1] = <<>>

CheckResult(w) ==
    IF NoResult(w.result) THEN [w EXCEPT !.need_redraw = TRUE] ELSE w

\* if self.old_du and not self.env.cwd.disk_usage
CheckDu(w, e) ==
    IF (w.old_du # None /\ w.old_du[1] # 0) /\ e.disk_usage = 0
    THEN [w EXCEPT !.old_du = Some(e.disk_usage), !.need_redraw = TRUE]
    ELSE w

\* the new current file remembered without asking for a redraw
CheckCfQuiet(w, e) ==
    IF w.old_cf # e.cf THEN [w EXCEPT !.old_cf = e.cf] ELSE w

CheckCf(w, e) ==
    IF w.old_cf # e.cf
    THEN [w EXCEPT !.old_cf = e.cf, !.need_redraw = TRUE]
    ELSE w

CheckMtime(w, mtime) ==
    IF w.old_mtime # Some(mtime)
    THEN [w EXCEPT !.old_mtime = Some(mtime), !.need_redraw = TRUE]
    ELSE w

\* the bar recomposed on every frame, need_redraw or not
RecomposeAlways(w, e) ==
    LET w1 == _calc_bar([w EXCEPT !.need_redraw = FALSE], e)
    IN  [w |-> w1, ops |-> _print_result(w1.result[1]), calc |-> 1]

Recompose(w, e) ==
    IF w.need_redraw
    THEN LET w1 == _calc_bar([w EXCEPT !.need_redraw = FALSE], e)
         IN  [w |-> w1, ops |-> _print_result(w1.result[1]), calc |-> 1]
    ELSE [w |-> w, ops |-> <<>>, calc |-> 0]

NormalBranch(w, e) ==
    Recompose(CheckMtime(CheckCf(CheckDu(CheckResult(w), e), e),
                         observed_mtime(e)), e)

\* a message branch that lowers need_redraw once the message is drawn
MsgBranchLowers(w, e) ==
    IF w.msg # None
    THEN IF is_alive(w.msg[1], e.now)
         THEN [w |-> [w EXCEPT !.need_redraw = FALSE],
               ops |-> _draw_message(w.msg[1], e.wid), calc |-> 0]
         ELSE NormalBranch(MsgExpired(w), e)
    ELSE NormalBranch(w, e)

MsgBranch(w, e) ==
    IF w.msg # None
    THEN IF is_alive(w.msg[1], e.now)
         THEN [w |-> w, ops |-> _draw_message(w.msg[1], e.wid), calc |-> 0]
         ELSE NormalBranch(MsgExpired(w), e)
    ELSE NormalBranch(w, e)

\* the message tested before the hint
draw_message_first(w, e) ==
    IF w.msg # None /\ is_alive(w.msg[1], e.now)
    THEN [w |-> w, ops |-> _draw_message(w.msg[1], e.wid), calc |-> 0]
    ELSE IF HintActive(w.hint) THEN HintBranch(w, e)
    ELSE MsgBranch(HintCleared(w), e)

draw(w, e) ==
    IF HintActive(w.hint) THEN HintBranch(w, e)
    ELSE MsgBranch(HintCleared(w), e)

\* --------------------------------------------------------------- state
DuValues == {0, 7}
FreeValues == {5, 9}
ListingSizes == {2, 3}
MarkedValues == {{}, {1}, {1, 2}}
ScrollValues == {0, 1}
HeiValues == {1, 2}

\* the widget's fields and the inputs of one frame, as records
Self ==
    [hint |-> hint, msg |-> msg, need_redraw |-> need_redraw,
     old_cf |-> old_cf, old_mtime |-> old_mtime, old_du |-> old_du,
     old_hint |-> old_hint, result |-> result,
     owners |-> owners, groups |-> groups]

Env ==
    [now |-> now, cf |-> cf, stat |-> stat, disk_usage |-> disk_usage,
     column |-> column, nfiles |-> nfiles, marked |-> marked,
     scroll_begin |-> scroll_begin, hei |-> hei, free_space |-> free_space,
     display_size |-> display_size, wid |-> wid, x |-> 0]

\* the frame's fingerprint inputs as an observer of the program sees them
Observed ==
    [cf |-> cf,
     mtime |-> IF stat.kind = "ok" THEN stat.st_mtime ELSE -1,
     du |-> disk_usage]

\* no overlay is due: the hint is not a non-empty string and no message
\* is held whose expiry lies at or after the current time
NoOverlay ==
    /\ ~(hint.isStr /\ hint.chars # <<>>)
    /\ ~(msg # None /\ now <= msg[1].elapse)

\* the overlays a draw() put on the surface, by the colour it chose
OverlaysIn(o) ==
    {k \in {"text", "message"} :
        \E i \in 1..Len(o) :
            o[i].op = "color" /\ Len(o[i].lst) >= 2 /\ o[i].lst[2] = k}

NotDrawn(call) ==
    /\ last' = call
    /\ pre' = None
    /\ ops' = <<>>
    /\ calc' = 0
    /\ draws' = 0

\* the fields as __init__ leaves them, and nothing observed yet
InitFields ==
    /\ msg = None
    /\ need_redraw \in BOOLEAN
    /\ old_cf = NoFile
    /\ old_mtime = None
    /\ old_du = None
    /\ old_hint = HintNone
    /\ result = None
    /\ owners = <<>>
    /\ groups = <<>>
    /\ now = 0
    /\ last = None
    /\ pre = None
    /\ ops = <<>>
    /\ calc = 0
    /\ seen = None
    /\ requested = FALSE
    /\ draws = 0
    /\ other = FALSE
    /\ shown = {}
    /\ covered = FALSE

InitBar ==
    /\ InitFields
    /\ hint = HintNone
    /\ cf = "f1"
    /\ stat = StatOk(1)
    /\ disk_usage = 0
    /\ nfiles = 2
    /\ marked = {}
    /\ scroll_begin = 0
    /\ hei = 2
    /\ free_space = 5
    /\ display_size = TRUE
    /\ wid = Wid

\* a status bar constructed without a column
Init == InitBar /\ column = "None"

\* a status bar constructed with the browser's main column, whose
\* directory is loaded
InitColumn == InitBar /\ column = "dir"

\* ---------------------------------------------------------- operations
\* statusbar.hint = h, by the code that shows or clears a key hint
SetHint ==
    \E h \in HintValues \ {hint} :
        /\ hint' = h
        /\ NotDrawn(None)
        /\ UNCHANGED <<msg, need_redraw, old_cf, old_mtime, old_du, old_hint,
                       result, owners, groups, inputs, seen, requested, other,
                       shown, covered>>

\* notify() that keeps a held message which would outlive the new one
notify_keep_longer ==
    \E n \in Notices, duration \in Durations :
        /\ msg' = IF msg # None /\ now + duration < msg[1].elapse THEN msg
                  ELSE Some(Message(n.text, duration, n.bad, now))
        /\ NotDrawn(Some([text |-> n.text, duration |-> duration,
                          bad |-> n.bad, held |-> msg # None,
                          sooner |-> msg # None /\ now + duration < msg[1].elapse]))
        /\ covered' = (hint.isStr /\ hint.chars # <<>>)
        /\ UNCHANGED <<hint, need_redraw, old_cf, old_mtime, old_du, old_hint,
                       result, owners, groups, inputs, seen, requested, other,
                       shown>>

notify ==
    \E n \in Notices, duration \in Durations :
        /\ msg' = Some(Message(n.text, duration, n.bad, now))
        /\ NotDrawn(Some([text |-> n.text, duration |-> duration,
                          bad |-> n.bad, held |-> msg # None,
                          sooner |-> msg # None /\ now + duration < msg[1].elapse]))
        /\ covered' = (hint.isStr /\ hint.chars # <<>>)
        /\ UNCHANGED <<hint, need_redraw, old_cf, old_mtime, old_du, old_hint,
                       result, owners, groups, inputs, seen, requested, other,
                       shown>>

\* request_redraw() that leaves need_redraw as it is
request_redraw_lost ==
    /\ need_redraw' = need_redraw
    /\ requested' = TRUE
    /\ NotDrawn(None)
    /\ UNCHANGED <<hint, msg, old_cf, old_mtime, old_du, old_hint,
                   result, owners, groups, inputs, seen, other, shown, covered>>

request_redraw ==
    /\ need_redraw' = TRUE
    /\ requested' = TRUE
    /\ NotDrawn(None)
    /\ UNCHANGED <<hint, msg, old_cf, old_mtime, old_du, old_hint,
                   result, owners, groups, inputs, seen, other, shown, covered>>

\* the clock advances
Tick ==
    /\ now < MaxTime
    /\ now' = now + 1
    /\ NotDrawn(None)
    /\ UNCHANGED <<widget, cf, stat, disk_usage, column, nfiles, marked,
                   scroll_begin, hei, free_space, display_size, wid,
                   seen, requested, other, shown, covered>>

\* the browser points at another file
SetCf ==
    \E f \in Files \ {cf}, s \in StatValues :
        /\ cf' = f
        /\ stat' = s
        /\ NotDrawn(None)
        /\ UNCHANGED <<widget, now, disk_usage, column, nfiles, marked,
                       scroll_begin, hei, free_space, display_size, wid,
                       seen, requested, other, shown, covered>>

\* the current file is modified, removed or becomes unreadable
Touch ==
    \E s \in StatValues \ {stat} :
        /\ stat' = s
        /\ NotDrawn(None)
        /\ UNCHANGED <<widget, now, cf, disk_usage, column, nfiles, marked,
                       scroll_begin, hei, free_space, display_size, wid,
                       seen, requested, other, shown, covered>>

\* the directory's disk usage becomes known, or is reset by a reload
SetDiskUsage ==
    \E d \in DuValues \ {disk_usage} :
        /\ disk_usage' = d
        /\ NotDrawn(None)
        /\ UNCHANGED <<widget, now, cf, stat, column, nfiles, marked,
                       scroll_begin, hei, free_space, display_size, wid,
                       seen, requested, other, shown, covered>>

\* ---- inputs outside the fingerprint
\* files are marked or unmarked
Mark ==
    \E m \in MarkedValues \ {marked} :
        /\ marked' = m
        /\ other' = TRUE
        /\ NotDrawn(None)
        /\ UNCHANGED <<widget, now, cf, stat, disk_usage, column, nfiles,
                       scroll_begin, hei, free_space, display_size, wid,
                       seen, requested, shown, covered>>

\* the listing scrolls
Scroll ==
    \E p \in ScrollValues \ {scroll_begin} :
        /\ scroll_begin' = p
        /\ other' = TRUE
        /\ NotDrawn(None)
        /\ UNCHANGED <<widget, now, cf, stat, disk_usage, column, nfiles,
                       marked, hei, free_space, display_size, wid,
                       seen, requested, shown, covered>>

\* the column is resized
SetHei ==
    \E h \in HeiValues \ {hei} :
        /\ hei' = h
        /\ other' = TRUE
        /\ NotDrawn(None)
        /\ UNCHANGED <<widget, now, cf, stat, disk_usage, column, nfiles,
                       marked, scroll_begin, free_space, display_size, wid,
                       seen, requested, shown, covered>>

\* files appear in or vanish from the directory
SetListing ==
    \E n \in ListingSizes \ {nfiles} :
        /\ nfiles' = n
        /\ other' = TRUE
        /\ NotDrawn(None)
        /\ UNCHANGED <<widget, now, cf, stat, disk_usage, column,
                       marked, scroll_begin, hei, free_space, display_size,
                       wid, seen, requested, shown, covered>>

SetFreeSpace ==
    \E n \in FreeValues \ {free_space} :
        /\ free_space' = n
        /\ other' = TRUE
        /\ NotDrawn(None)
        /\ UNCHANGED <<widget, now, cf, stat, disk_usage, column, nfiles,
                       marked, scroll_begin, hei, display_size, wid,
                       seen, requested, shown, covered>>

\* the option display_size_in_status_bar is set; the signal bound in
\* __init__ calls request_redraw()
SetDisplaySize ==
    /\ display_size' = ~display_size
    /\ need_redraw' = TRUE
    /\ requested' = TRUE
    /\ other' = TRUE
    /\ NotDrawn(None)
    /\ UNCHANGED <<hint, msg, old_cf, old_mtime, old_du, old_hint, result,
                   owners, groups, now, cf, stat, disk_usage, column, nfiles,
                   marked, scroll_begin, hei, free_space, wid, seen, shown,
                   covered>>

Draw ==
    LET r == draw(Self, Env)
    IN  /\ hint' = r.w.hint
        /\ msg' = r.w.msg
        /\ need_redraw' = r.w.need_redraw
        /\ old_cf' = r.w.old_cf
        /\ old_mtime' = r.w.old_mtime
        /\ old_du' = r.w.old_du
        /\ old_hint' = r.w.old_hint
        /\ result' = r.w.result
        /\ owners' = r.w.owners
        /\ groups' = r.w.groups
        /\ ops' = r.ops
        /\ calc' = r.calc
        /\ last' = None
        /\ pre' = Some([w |-> Self, e |-> Env, seen |-> seen,
                        requested |-> requested, draws |-> draws,
                        other |-> other, free |-> NoOverlay,
                        shown |-> shown, covered |-> covered])
        /\ seen' = Some(Observed)
        /\ requested' = IF NoOverlay THEN FALSE ELSE requested
        /\ draws' = IF draws < 2 THEN draws + 1 ELSE 2
        /\ other' = FALSE
        /\ shown' = IF NoOverlay THEN {} ELSE shown \cup OverlaysIn(r.ops)
        /\ covered' = (covered /\ hint.isStr /\ hint.chars # <<>>)
        /\ UNCHANGED inputs

Next ==
    \/ Draw
    \/ SetHint
    \/ notify
    \/ request_redraw
    \/ Tick
    \/ Touch

Spec == Init /\ [][Next]_vars

\* the dirty-state tracker under changes of the fingerprint inputs
NextDirty ==
    \/ Draw
    \/ SetHint
    \/ request_redraw
    \/ SetCf
    \/ Touch
    \/ SetDiskUsage

SpecDirty == Init /\ [][NextDirty]_vars

\* the composed content under changes of the inputs it is built from
NextContent ==
    \/ Draw
    \/ request_redraw
    \/ Mark
    \/ Scroll
    \/ SetHei
    \/ SetListing
    \/ SetFreeSpace
    \/ SetDisplaySize

SpecContent == InitColumn /\ [][NextContent]_vars

\* ================================================================
\* Properties
\* ================================================================
Drawn == pre # None

\* the hint is a non-empty string
HintIsText(h) == h.isStr /\ h.chars # <<>>

\* a message is held and the time t is not past its expiry
Alive(m, t) == m # None /\ t <= m[1].elapse

MtimeOf(s) == IF s.kind = "ok" THEN s.st_mtime ELSE -1

\* what the last draw() put on the surface
DrewHint ==
    \E i \in 1..Len(ops) :
        ops[i].op = "color" /\ Len(ops[i].lst) >= 2 /\ ops[i].lst[2] = "text"
DrewMessage ==
    \E i \in 1..Len(ops) :
        ops[i].op = "color" /\ Len(ops[i].lst) >= 2 /\ ops[i].lst[2] = "message"
Printed == \E i \in 1..Len(ops) : ops[i].op = "move"

\* a result is cached and it is not the empty list
Cached(r) == r # None /\ r[1] # <<>>

\* the last draw() started with the fingerprint fields it had stored
FingerprintStored(p) ==
    /\ p.w.old_cf = p.e.cf
    /\ p.w.old_mtime = Some(MtimeOf(p.e.stat))

\* C1: in every draw(), a hint that is a non-empty string shuts out the
\* message and the normal content; otherwise an alive message shuts out
\* the normal content; the bar is recomposed or printed only when neither
\* overlay is due, and an overlay is drawn only when it is due.
C1_OverlayPrecedence ==
    Drawn =>
        LET p == pre[1]
        IN  /\ HintIsText(p.w.hint) =>
                ~DrewMessage /\ ~Printed /\ calc = 0 /\ result = p.w.result
            /\ (~HintIsText(p.w.hint) /\ Alive(p.w.msg, p.e.now)) =>
                DrewMessage /\ ~DrewHint /\ ~Printed /\ calc = 0
                /\ result = p.w.result
            /\ (calc > 0 \/ Printed) =>
                ~HintIsText(p.w.hint) /\ ~Alive(p.w.msg, p.e.now)
            /\ DrewHint => HintIsText(p.w.hint)

\* a draw() that showed the hint although an alive message was held
C1_Witness ==
    /\ Drawn
    /\ HintIsText(pre[1].w.hint)
    /\ Alive(pre[1].w.msg, pre[1].e.now)
    /\ DrewHint

\* C2 (as claimed): a draw() that directly follows another draw(), with
\* no overlay due, does not call _calc_bar, whatever the cached result.
C2_SecondDrawSkips ==
    (Drawn /\ pre[1].draws >= 1 /\ pre[1].free) => calc = 0

\* C3 (as claimed): a draw() that directly follows another draw() does
\* nothing to the display surface, in any of the three display modes.
C3_SecondDrawSilent ==
    (Drawn /\ pre[1].draws >= 1) => ops = <<>>

\* C4: when the current file or its observed mtime differs from what it
\* was at the previous draw(), and no overlay is due, draw() recomposes
\* the bar, prints it and leaves need_redraw False.
C4_FileChangeRedraws ==
    (/\ Drawn
     /\ pre[1].seen # None
     /\ pre[1].free
     /\ \/ pre[1].seen[1].cf # pre[1].e.cf
        \/ pre[1].seen[1].mtime # MtimeOf(pre[1].e.stat))
    => /\ calc = 1
       /\ Printed
       /\ ops = _print_result(result[1])
       /\ need_redraw = FALSE

\* the current file was replaced by another one with the same mtime while
\* a result was cached and no redraw was pending, and draw() recomposed
C4_Witness ==
    /\ Drawn
    /\ pre[1].seen # None
    /\ pre[1].free
    /\ pre[1].seen[1].cf # pre[1].e.cf
    /\ pre[1].seen[1].mtime = MtimeOf(pre[1].e.stat)
    /\ Cached(pre[1].w.result)
    /\ ~pre[1].w.need_redraw
    /\ calc = 1

\* C5 (as claimed): disk usage absent at the previous draw() and present
\* now, the other fingerprint fields unchanged, a non-empty result cached,
\* no redraw pending and no overlay: draw() recomposes.
C5_DiskUsageRedraws ==
    (/\ Drawn
     /\ pre[1].seen # None
     /\ pre[1].seen[1].du = 0
     /\ pre[1].e.disk_usage # 0
     /\ pre[1].seen[1].cf = pre[1].e.cf
     /\ pre[1].seen[1].mtime = MtimeOf(pre[1].e.stat)
     /\ Cached(pre[1].w.result)
     /\ ~pre[1].w.need_redraw
     /\ ~Truthy(pre[1].w.hint)
     /\ pre[1].w.msg = None)
    => calc = 1

\* C6: with a non-empty cached result, need_redraw False, no hint and no
\* message, and the fingerprint inputs as they were at the previous
\* draw(), a change of the marked items, the scroll offset, the column
\* height, the listing length or the free space does not make draw()
\* recompose: the result stays and nothing is printed.
C6_OtherInputsIgnored ==
    (/\ Drawn
     /\ pre[1].other
     /\ pre[1].seen = Some([cf |-> pre[1].e.cf,
                            mtime |-> MtimeOf(pre[1].e.stat),
                            du |-> pre[1].e.disk_usage])
     /\ Cached(pre[1].w.result)
     /\ ~pre[1].w.need_redraw
     /\ ~Truthy(pre[1].w.hint)
     /\ pre[1].w.msg = None)
    => /\ calc = 0
       /\ result = pre[1].w.result
       /\ ops = <<>>

\* such a draw() after which the cached result is not what _calc_bar
\* would compose from the inputs now
C6_Witness ==
    /\ Drawn
    /\ pre[1].other
    /\ Cached(pre[1].w.result)
    /\ ~pre[1].w.need_redraw
    /\ calc = 0
    /\ ops = <<>>
    /\ result # _calc_bar(Self, Env).result

\* C7: a draw() with no overlay due that follows a request_redraw() not
\* yet served recomposes and prints the bar and resets need_redraw.
C7_RequestForcesRedraw ==
    (Drawn /\ pre[1].requested /\ pre[1].free)
    => /\ calc = 1
       /\ Printed
       /\ need_redraw = FALSE

\* the request was served although the fingerprint fields were as stored
\* and a result was cached
C7_Witness ==
    /\ Drawn
    /\ pre[1].requested
    /\ pre[1].free
    /\ FingerprintStored(pre[1])
    /\ Cached(pre[1].w.result)
    /\ calc = 1
    /\ need_redraw = FALSE

\* C8: the message made by notify(text, d, bad) at time T is alive at
\* every time t with T <= t <= T + d and dead at every later time; and
\* draw() shows a held message, when no hint is due, exactly while the
\* time is not past T + d.
C8_AliveWindow ==
    /\ last # None =>
        /\ msg # None
        /\ \A t \in now..(MaxTime + 2) :
               is_alive(msg[1], t) <=> (t <= now + last[1].duration)
    /\ (Drawn /\ ~HintIsText(pre[1].w.hint) /\ pre[1].w.msg # None) =>
        (DrewMessage <=> pre[1].e.now <= pre[1].w.msg[1].elapse)

\* a message shown by a draw() made exactly at its expiry time, after the
\* clock has advanced
C8_Witness ==
    /\ Drawn
    /\ pre[1].w.msg # None
    /\ pre[1].e.now = pre[1].w.msg[1].elapse
    /\ pre[1].e.now > 0
    /\ DrewMessage

\* C9: one message is held at most, and after notify() the held message
\* has the text, the severity and the expiry T + d of that call, whatever
\* was held before.
C9_NotifyReplaces ==
    /\ Len(msg) <= 1
    /\ last # None =>
        msg = Some([text |-> last[1].text, bad |-> last[1].bad,
                    elapse |-> now + last[1].duration])

\* a notify() that replaced a held message by one that expires sooner
C9_Witness ==
    /\ last # None
    /\ last[1].held
    /\ last[1].sooner
    /\ msg[1].elapse = now + last[1].duration

\* C10: a draw() made with a held message past its expiry and no hint due
\* drops the message, recomposes and prints the normal content and does
\* not draw the message; no draw() draws a message that is not alive.
C10_ExpiryForcesRedraw ==
    /\ (/\ Drawn
        /\ pre[1].w.msg # None
        /\ pre[1].e.now > pre[1].w.msg[1].elapse
        /\ ~HintIsText(pre[1].w.hint))
       => /\ msg = None
          /\ calc = 1
          /\ Printed
          /\ ~DrewMessage
    /\ (Drawn /\ DrewMessage) => Alive(pre[1].w.msg, pre[1].e.now)

\* the expired message was dropped and the bar recomposed although the
\* fingerprint fields were as stored, a result was cached and no redraw
\* was pending
C10_Witness ==
    /\ Drawn
    /\ pre[1].w.msg # None
    /\ pre[1].e.now > pre[1].w.msg[1].elapse
    /\ ~HintIsText(pre[1].w.hint)
    /\ FingerprintStored(pre[1])
    /\ Cached(pre[1].w.result)
    /\ ~pre[1].w.need_redraw
    /\ msg = None
    /\ calc = 1

\* C11: once a draw() has shown a hint, the first draw() afterwards at
\* which the hint is empty or None and no message is alive recomposes the
\* bar and prints it, also when the current file, its mtime and the disk
\* usage are as stored and a result is cached.
C11_HintClearedRedraws ==
    (/\ Drawn
     /\ "text" \in pre[1].shown
     /\ ~Truthy(pre[1].w.hint)
     /\ ~Alive(pre[1].w.msg, pre[1].e.now))
    => (calc = 1 /\ Printed /\ ~DrewHint)

\* the hint was cleared over an unchanged file with a cached result
C11_Witness ==
    /\ Drawn
    /\ "text" \in pre[1].shown
    /\ ~Truthy(pre[1].w.hint)
    /\ ~Alive(pre[1].w.msg, pre[1].e.now)
    /\ FingerprintStored(pre[1])
    /\ Cached(pre[1].w.result)
    /\ ~pre[1].requested
    /\ calc = 1
    /\ Printed

\* ================================================================
\* _draw_hint as a function of the hint and the width
\* ================================================================
MaxHintLen == 6
MaxHintWid == 4

\* every non-empty str of at most n characters over a small alphabet
HintTexts(n) ==
    {[isStr |-> TRUE, chars |-> c] :
        c \in UNION {[1..k -> {"a", "b", "/"}] : k \in 1..n}}

InitHint ==
    /\ InitFields
    /\ hint \in HintTexts(MaxHintLen)
    /\ wid \in 0..MaxHintWid
    /\ column = "None"
    /\ cf = "f1"
    /\ stat = StatOk(1)
    /\ disk_usage = 0
    /\ nfiles = 2
    /\ marked = {}
    /\ scroll_begin = 0
    /\ hei = 2
    /\ free_space = 5
    /\ display_size = TRUE

NextHint == Draw

SpecHint == InitHint /\ [][NextHint]_vars

\* no two adjacent characters of c are both '/'
NoSeparator(c) ==
    \A i \in 1..(Len(c) - 1) : ~(c[i] = "/" /\ c[i + 1] = "/")

RECURSIVE Separated(_)
Separated(segs) ==
    IF Len(segs) = 1 THEN segs[1]
    ELSE segs[1] \o <<"/", "/">> \o Separated(Tail(segs))

\* segs is chars cut at every '//' found from left to right
IsSplit(segs, chars) ==
    /\ Len(segs) >= 1
    /\ Separated(segs) = chars
    /\ \A i \in 1..Len(segs) :
        NoSeparator(IF i < Len(segs) THEN Append(segs[i], "/") ELSE segs[i])

RECURSIVE SumLen(_, _)
SumLen(segs, k) == IF k = 0 THEN 0 ELSE SumLen(segs, k - 1) + Len(segs[k])

\* characters an addnstr(x, string, n) puts on the surface
Written(o) ==
    IF o.n < 0 \/ Len(o.string) <= o.n THEN Len(o.string) ELSE o.n

RECURSIVE TotalWritten(_)
TotalWritten(o) ==
    IF o = <<>> THEN 0
    ELSE (IF o[1].op = "addnstr" THEN Written(o[1]) ELSE 0)
         + TotalWritten(Tail(o))

\* number of segments _draw_hint passed to addnstr
SegmentsDrawn == Cardinality({i \in 1..Len(ops) : ops[i].op = "addnstr"})

\* C12: _draw_hint cuts the hint at every '//'; segment i (0-based) is
\* written in the plain style when i is even and highlighted when i is
\* odd, starting at the column where the segment before it ended, in the
\* order of the hint; the segments written are those that start inside
\* the width, each cut to the width that is left, so that at most wid
\* characters are written in all.
C12_HintSegments ==
    (Drawn /\ HintIsText(pre[1].w.hint)) =>
        LET segs == split(pre[1].w.hint.chars, <<>>)
            w == pre[1].e.wid
            n == SegmentsDrawn
        IN  /\ IsSplit(segs, pre[1].w.hint.chars)
            /\ ops[1] = erase
            /\ n <= Len(segs)
            /\ Len(ops) \in {2 * n + 1, 2 * n + 2}
            /\ \A k \in 1..n :
                /\ ops[2 * k] = color(IF k % 2 = 1 THEN <<base, "text">>
                                      ELSE <<base, "text", "highlight">>)
                /\ ops[2 * k + 1].op = "addnstr"
                /\ ops[2 * k + 1].string = Join(segs[k])
                /\ ops[2 * k + 1].x = SumLen(segs, k - 1)
                /\ ops[2 * k + 1].x + Written(ops[2 * k + 1]) <= w
            /\ \A k \in 1..Len(segs) : k <= n <=> SumLen(segs, k - 1) < w
            /\ TotalWritten(ops) <= w

\* a hint of three segments of which the second is cut short and the
\* third is not drawn
C12_Witness ==
    /\ Drawn
    /\ HintIsText(pre[1].w.hint)
    /\ Len(split(pre[1].w.hint.chars, <<>>)) = 3
    /\ SegmentsDrawn = 2
    /\ TotalWritten(ops) = pre[1].e.wid
    /\ \E i \in 1..Len(ops) :
        ops[i].op = "addnstr" /\ Written(ops[i]) < Len(ops[i].string)

\* ================================================================
\* _calc_bar as a function of the inputs it reads
\* ================================================================
ItemCounts == {1, 2, 4, 9}
Heights == {1, 3}
Offsets == {0, 1, 2, 3, 4, 8}
Widths == {0, 12, 30, Wid}
MarkedChoices(n) ==
    {S \in {{}, {1}, {2}, {1, 2}, {1, 3}, 1..n} : S \subseteq 1..n}

\* a status bar on a loaded directory of any listed size, scrolled to
\* any of its items, over a current file whose stat may be unreadable
InitCompose ==
    /\ InitFields
    /\ hint = HintNone
    /\ column = "dir"
    /\ cf \in Files
    /\ stat \in {StatRaises, StatNone, StatOk(1)}
    /\ disk_usage \in DuValues
    /\ nfiles \in ItemCounts
    /\ marked \in MarkedChoices(nfiles)
    /\ scroll_begin \in {o \in Offsets : o < nfiles}
    /\ hei \in Heights
    /\ free_space = 5
    /\ display_size = TRUE
    /\ wid \in Widths

NextCompose ==
    \/ Draw
    \/ request_redraw

SpecCompose == InitCompose /\ [][NextCompose]_vars

\* the last draw() called _calc_bar
Composed == Drawn /\ calc = 1

\* the fragments of side that carry the tag
Tagged(side, tag) ==
    {i \in 1..Len(side) : \E j \in 1..Len(side[i].lst) : side[i].lst[j] = tag}

\* C13: whenever the right part is composed it ends in exactly one scroll
\* indicator: 'Mrk' if anything is marked; else 'All' if the item count
\* minus the column height is at most 0; else 'Top' at offset 0; else
\* 'Bot' at an offset at or beyond that maximum; else the integer nearest
\* to 100 * offset / maximum followed by '%'.  With the full width the
\* indicator is the last fragment of the cached result.
C13_ScrollIndicator ==
    Composed =>
        LET e == pre[1].e
            r == _get_right_part(e)
            ind == r[Len(r)].string
            pos == e.scroll_begin
            max_pos == e.nfiles - e.hei
        IN  /\ r # <<>>
            /\ Tagged(r, "scroll") = {Len(r)}
            /\ e.marked # {} => ind = "Mrk"
            /\ (e.marked = {} /\ max_pos <= 0) => ind = "All"
            /\ (e.marked = {} /\ max_pos > 0 /\ pos = 0) => ind = "Top"
            /\ (e.marked = {} /\ max_pos > 0 /\ pos > 0 /\ pos >= max_pos)
                => ind = "Bot"
            /\ (e.marked = {} /\ max_pos > 0 /\ pos > 0 /\ pos < max_pos)
                => \E q \in 0..100 :
                    /\ ind = ToString(q) \o "%"
                    /\ 2 * (100 * pos - q * max_pos) <= max_pos
                    /\ 2 * (q * max_pos - 100 * pos) <= max_pos
            /\ e.wid = Wid => result[1][Len(result[1])] = r[Len(r)]

\* a percentage that is not a whole number before rounding
C13_Witness ==
    /\ Composed
    /\ pre[1].e.marked = {}
    /\ pre[1].e.scroll_begin > 0
    /\ pre[1].e.scroll_begin < pre[1].e.nfiles - pre[1].e.hei
    /\ (100 * pre[1].e.scroll_begin) % (pre[1].e.nfiles - pre[1].e.hei) # 0
    /\ pre[1].e.wid = Wid
    /\ Tagged(result[1], "percentage") # {}

\* the sizes of the items of S that are plain files, over the items 1..k
RECURSIVE PlainTotal(_, _)
PlainTotal(S, k) ==
    IF k = 0 THEN 0
    ELSE (IF k \in S /\ ItemIsFile(k) THEN ItemSize(k) ELSE 0)
         + PlainTotal(S, k - 1)

\* C14: with at least one item marked the right part starts with the
\* directory's disk usage if as many items are marked as are listed, and
\* otherwise with the summed size of the marked plain files, followed by
\* ' / N' for N marked items; with nothing marked it starts with the disk
\* usage, ', ' and the free space.  Two spaces and the indicator follow.
C14_MarkedSummary ==
    Composed =>
        LET e == pre[1].e
            r == _get_right_part(e)
            n == Cardinality(e.marked)
        IN  /\ e.marked # {} =>
                /\ Len(r) = 4
                /\ r[1].string =
                     human_readable(IF n = e.nfiles THEN e.disk_usage
                                    ELSE PlainTotal(e.marked, e.nfiles))
                /\ r[2].string = " / " \o ToString(n)
                /\ r[3].string = "  "
            /\ e.marked = {} =>
                /\ Len(r) = 5
                /\ r[1].string = human_readable(e.disk_usage)
                /\ r[2].string = ", "
                /\ r[3].string = human_readable(e.free_space)
                /\ r[4].string = "  "
            /\ (e.wid = Wid /\ e.stat.kind # "ok") => result[1] = r

\* some but not all items marked, a directory among them
C14_Witness ==
    /\ Composed
    /\ pre[1].e.marked = {1, 2}
    /\ pre[1].e.nfiles = 4
    /\ pre[1].e.wid = Wid
    /\ pre[1].e.stat.kind # "ok"
    /\ result[1][1].string = human_readable(ItemSize(1))

\* C15 (as claimed): once the left part has been composed for a file,
\* the owner and group names shown for its uid and gid are in the name
\* caches, also when the lookup failed and the numeric id is shown, so
\* that the next lookup of that id is answered from the cache.
C15_FailureCached ==
    (Composed /\ pre[1].e.stat.kind = "ok") =>
        LET uid == st_uid(pre[1].e.cf)
            gid == st_gid(pre[1].e.cf)
        IN  /\ uid \in DOMAIN owners
            /\ owners[uid] = _get_owner(pre[1].w.owners, uid).name
            /\ gid \in DOMAIN groups
            /\ groups[gid] = _get_group(pre[1].w.groups, gid).name

\* C16 (as claimed): a draw() that finds the current file, its mtime or
\* the hint different from the stored previous value stores the value it
\* found, for old_cf, old_mtime and old_hint alike, and a field found
\* unchanged keeps its stored value.
C16_FingerprintFollows ==
    Drawn =>
        LET p == pre[1]
            mtime == Some(MtimeOf(p.e.stat))
        IN  /\ (p.free /\ p.w.old_cf # p.e.cf) => old_cf = p.e.cf
            /\ (p.free /\ p.w.old_mtime # mtime) => old_mtime = mtime
            /\ (HintIsText(p.w.hint) /\ p.w.old_hint # p.w.hint)
                => old_hint = p.w.hint
            /\ (p.free /\ p.w.old_cf = p.e.cf) => old_cf = p.w.old_cf
            /\ (p.free /\ p.w.old_mtime = mtime) => old_mtime = p.w.old_mtime
            /\ (HintIsText(p.w.hint) /\ p.w.old_hint = p.w.hint)
                => old_hint = p.w.old_hint

\* C17: when reading the stat of the current file raises or gives None,
\* draw() takes -1 as the mtime, the left part adds no fragment and leaves
\* the name caches alone, the right part is composed all the same, and
\* the frame is completed: the result is stored and printed and
\* need_redraw is lowered.
C17_StatUnavailable ==
    (Drawn /\ pre[1].free /\ pre[1].e.stat.kind # "ok") =>
        LET p == pre[1]
            r == _get_right_part(p.e)
        IN  /\ old_mtime = Some(-1)
            /\ owners = p.w.owners
            /\ groups = p.w.groups
            /\ ~need_redraw
            /\ (\/ p.w.need_redraw
                \/ p.w.result = None
                \/ p.w.old_mtime # Some(-1)
                \/ p.w.old_cf # p.e.cf) => calc = 1
            /\ calc = 1 =>
                /\ result # None
                /\ \E k \in 0..Len(r) : result[1] = SubSeq(r, 1, k)
                /\ sumsize(r) <= p.e.wid => result[1] = r
                /\ ops = _print_result(result[1])
                /\ Printed

\* the stat is None, the bar is wide enough and the right part is shown
C17_Witness ==
    /\ Composed
    /\ pre[1].e.stat = StatNone
    /\ pre[1].e.wid = Wid
    /\ result[1] = _get_right_part(pre[1].e)
    /\ Tagged(result[1], "scroll") # {}
    /\ old_mtime = Some(-1)

\* a is b with some of its elements left out
RECURSIVE IsSubsequence(_, _)
IsSubsequence(a, b) ==
    IF a = <<>> THEN TRUE
    ELSE IF b = <<>> THEN FALSE
    ELSE IF a[1] = b[1] THEN IsSubsequence(Tail(a), Tail(b))
    ELSE IsSubsequence(a, Tail(b))

\* C18: the result cached by a recomposition is no longer than the width
\* it was composed for, and it consists of fragments of the left part in
\* their order followed by fragments of the right part in their order;
\* a cached result never exceeds the width of the bar.
C18_ResultFitsWidth ==
    /\ result # None => sumsize(result[1]) <= wid
    /\ Composed =>
        LET p == pre[1]
            left == _get_left_part(p.w, p.e).left
            right == _get_right_part(p.e)
            res == result[1]
        IN  /\ sumsize(res) <= p.e.wid
            /\ \E k \in 0..Len(res) :
                /\ IsSubsequence(SubSeq(res, 1, k), left)
                /\ IsSubsequence(SubSeq(res, k + 1, Len(res)), right)
            /\ sumsize(left) + sumsize(right) <= p.e.wid => res = left \o right

\* a bar too narrow for its parts: the right part and the end of the
\* left part are left out
C18_Witness ==
    /\ Composed
    /\ pre[1].e.stat.kind = "ok"
    /\ result[1] # <<>>
    /\ Len(result[1]) < Len(_get_left_part(pre[1].w, pre[1].e).left)
    /\ sumsize(result[1]) <= wid

\* one step as C19 reads it
RedrawKept ==
    /\ (need_redraw /\ ~need_redraw') =>
            (Drawn' /\ pre'[1].free /\ calc' = 1)
    /\ (need_redraw /\ Drawn' /\ ~pre'[1].free) =>
            /\ need_redraw'
            /\ old_cf' = old_cf
            /\ old_mtime' = old_mtime
            /\ result' = result
            /\ calc' = 0
    /\ (shown # {} /\ Drawn' /\ pre'[1].free) => (calc' = 1 /\ Printed')

\* C19: a need_redraw that is set stays set through every draw() that
\* ends in the hint branch or in the branch of an alive message, and such
\* a draw() leaves old_cf, old_mtime and the cached result as they were;
\* need_redraw is lowered only by a draw() that reaches the normal path
\* and recomposes; the first draw() that reaches the normal path after a
\* hint or a message was shown recomposes and prints.
C19_RedrawNotLost == [][RedrawKept]_vars

\* a requested redraw that has waited behind a message and a hint
C19_Witness ==
    /\ Drawn
    /\ ~pre[1].free
    /\ pre[1].requested
    /\ pre[1].shown = {"text", "message"}
    /\ pre[1].w.need_redraw
    /\ need_redraw
    /\ Cached(result)

\* C20: a draw() that shows a hint leaves msg as it is, expired or not,
\* and does not draw it; a message created under a hint is therefore not
\* drawn while the hint lasts.  At the first draw() without a hint such a
\* message is dropped undrawn if its expiry has passed, and drawn if it
\* is still alive.
C20_ExpiryWaitsForHint ==
    /\ (Drawn /\ covered) => ~DrewMessage
    /\ Drawn =>
        LET p == pre[1]
        IN  /\ HintIsText(p.w.hint) => (msg = p.w.msg /\ ~DrewMessage)
            /\ (/\ p.covered
                /\ ~HintIsText(p.w.hint)
                /\ p.w.msg # None
                /\ ~Alive(p.w.msg, p.e.now))
                => (msg = None /\ ~DrewMessage)
            /\ (p.covered /\ ~HintIsText(p.w.hint) /\ Alive(p.w.msg, p.e.now))
                => /\ msg = p.w.msg
                   /\ ops = _draw_message(p.w.msg[1], p.e.wid)

\* a message created under a hint that was shown, expired by the time
\* the hint is cleared, and dropped by the first draw() after that
C20_Witness ==
    /\ Drawn
    /\ pre[1].covered
    /\ "text" \in pre[1].shown
    /\ ~Truthy(pre[1].w.hint)
    /\ pre[1].w.msg # None
    /\ ~Alive(pre[1].w.msg, pre[1].e.now)
    /\ msg = None
    /\ calc = 1

====
